---- MODULE Spec2Model ----
(***************************************************************************)
(* Model of src/app.py: the chat relay of the LLM test web service.        *)
(*                                                                         *)
(* One caller request is followed from the handler chat() to its outcome,  *)
(* in buffered mode (http_client.post) and in streaming mode (the          *)
(* generator stream_chat_response).  The upstream server is the            *)
(* environment: its status, body, lines and failures are chosen            *)
(* nondeterministically.                                                   *)
(*                                                                         *)
(* Encoding.  Text is a sequence of tokens (one-character strings, or one  *)
(* token for a literal of the source).  Optional[T] is a sequence of       *)
(* length at most one: <<>> is None, <<v>> is the value v.  Temperatures   *)
(* are in tenths (7 is 0.7).  A body is a sequence of bytes; the token     *)
(* "xff" is a byte that is not valid UTF-8.                                *)
(***************************************************************************)
EXTENDS Integers, Sequences, FiniteSets, TLC

VARIABLES
    OPENAI_API_KEY,       \* process configuration, read once at startup
    OPENAI_MODEL,
    DEFAULT_TEMPERATURE,
    DEFAULT_MAX_TOKENS,
    pc,                   \* position of the request's handling
    request,              \* the ChatRequest being handled
    payload,              \* upstream payload built by chat()
    headers,              \* upstream headers built by chat()
    calls,                \* upstream calls issued for this request
    response,             \* upstream response: <<>> or <<[status, content]>>
    upLines,              \* lines aiter_lines() has produced so far
    upExc,                \* exception raised inside the try block, if any
    out,                  \* chunks the generator has yielded to the caller
    result,               \* buffered outcome: <<>> or <<[status, ...]>>
    conn,                 \* upstream connection of the request: none, held, released
    post_body,            \* JSON body of the caller's POST, when recorded
    phase,                \* life of the process: import, loaded, serving, stopped
    http_client,          \* the module global: None, open, closed
    client_log,           \* clients created and closed so far
    probes,               \* GET <base_url>/models calls issued at import
    environ,              \* the environment's OPENAI_MODEL: <<>> when unset
    tasks,                \* concurrent handlers of POST /api/chat, by request
    pool,                 \* requests holding a connection of the shared client
    stalled               \* requests whose upstream has stopped answering

vars == <<OPENAI_API_KEY, OPENAI_MODEL, DEFAULT_TEMPERATURE, DEFAULT_MAX_TOKENS,
          pc, request, payload, headers, calls, response, upLines, upExc,
          out, result, conn, post_body, phase, http_client, client_log, probes, environ, tasks, pool, stalled>>

config == <<OPENAI_API_KEY, OPENAI_MODEL, DEFAULT_TEMPERATURE, DEFAULT_MAX_TOKENS>>

\* what only startup and shutdown change
concurrent == <<tasks, pool, stalled>>
process == <<phase, http_client, client_log, probes, environ, concurrent>>

(***************************************************************************)
(* Bounds                                                                  *)
(***************************************************************************)
MaxLines == 2        \* lines an upstream stream emits
MaxBodyLen == 2      \* bytes of an upstream body

(***************************************************************************)
(* Optional values and Python truthiness                                   *)
(***************************************************************************)
None == <<>>
Some(v) == <<v>>

\* bool(x) of an Optional[str] / Optional[bool]: None, "" and False are falsy
TruthyStr(o) == o # <<>> /\ o[1] # ""
TruthyBool_not_none(o) == o # <<>>
TruthyBool(o) == o # <<>> /\ o[1]

(***************************************************************************)
(* Text helpers                                                            *)
(***************************************************************************)
Whitespace == {" ", "\t"}

RECURSIVE lstrip(_)
lstrip(s) == IF s # <<>> /\ Head(s) \in Whitespace THEN lstrip(Tail(s)) ELSE s

RECURSIVE rstrip(_)
rstrip(s) == IF s # <<>> /\ s[Len(s)] \in Whitespace
             THEN rstrip(SubSeq(s, 1, Len(s) - 1)) ELSE s

\* str.strip()
strip(s) == rstrip(lstrip(s))

RECURSIVE SeqsUpTo(_, _)
SeqsUpTo(S, n) == IF n = 0 THEN {<<>>}
                  ELSE LET R == SeqsUpTo(S, n - 1)
                       IN  R \cup {Append(r, x) : r \in R, x \in S}

\* t occurs in s as a contiguous substring
Contains(s, t) == \E i \in 0..(Len(s) - Len(t)) : SubSeq(s, i + 1, i + Len(t)) = t

(***************************************************************************)
(* Inputs: process configuration, caller requests, upstream behaviour      *)
(***************************************************************************)
OPENAI_BASE_URL == "http://localhost:8000/v1"

ApiKeys == {"", "sk-local"}
ModelIds == {"gpt-oss-120b", "served-model"}
DefaultTemperatures == {7, 10}
DefaultMaxTokens == {2000, 100}

Temperatures == {None, Some(0), Some(10)}
MaxTokens == {None, Some(0), Some(100)}
ReasoningEfforts == {None, Some(""), Some("high")}
Streams == {None, Some(FALSE), Some(TRUE)}
MessageLists == {<<[role |-> "user", content |-> "hi"]>>,
                 <<[role |-> "system", content |-> "be brief"],
                   [role |-> "user", content |-> "hi"]>>}

\* class ChatRequest(BaseModel)
ChatRequest == [messages : MessageLists, temperature : Temperatures,
                max_tokens : MaxTokens, reasoning_effort : ReasoningEfforts,
                stream : Streams]

UpstreamStatuses == {200, 201, 404, 500}
Bytes == {"1", " ", "xff"}
Bodies == SeqsUpTo(Bytes, MaxBodyLen)
\* lines as response.aiter_lines() delivers them (no line terminator)
UpstreamLines == {<<>>, <<" ">>, <<"d">>, <<" ", "d", " ">>}

(***************************************************************************)
(* Exceptions.  The classes are those the try blocks can meet; ExcParent   *)
(* is the base class, so that an except clause is an isinstance test.      *)
(***************************************************************************)
ExcParent(cls) ==
    CASE cls = "ConnectTimeout" -> "TimeoutException"
      [] cls = "ReadTimeout" -> "TimeoutException"
      [] cls = "PoolTimeout" -> "TimeoutException"
      [] cls = "TimeoutException" -> "TransportError"
      [] cls = "ConnectError" -> "NetworkError"
      [] cls = "ReadError" -> "NetworkError"
      [] cls = "NetworkError" -> "TransportError"
      [] cls = "RemoteProtocolError" -> "TransportError"
      [] cls = "TransportError" -> "Exception"
      [] cls = "JSONDecodeError" -> "ValueError"
      [] cls = "UnicodeDecodeError" -> "ValueError"
      [] cls = "ValueError" -> "Exception"
      [] cls = "HTTPException" -> "Exception"
      [] cls = "Exception" -> "BaseException"
      [] OTHER -> "BaseException"

RECURSIVE IsInstance(_, _)
IsInstance(cls, base) ==
    \/ cls = base
    \/ cls # "BaseException" /\ IsInstance(ExcParent(cls), base)

\* an exception object; status_code and detail are HTTPException's fields
Exc(cls) == [cls |-> cls, status_code |-> 0, detail |-> <<>>]
HTTPException(status_code, detail) ==
    [cls |-> "HTTPException", status_code |-> status_code, detail |-> detail]

\* str(e): HTTPException prints "<status_code>: <detail>"; any other
\* exception prints its own message, one token here
str(e) == IF e.cls = "HTTPException"
          THEN <<ToString(e.status_code), ": ">> \o e.detail
          ELSE <<e.cls>>

\* failures of the upstream call before a response is received
ConnectFailures == {"ConnectError", "ConnectTimeout", "PoolTimeout",
                    "ReadTimeout", "ReadError"}
\* failures while a response body is being read
ReadFailures == {"ReadTimeout", "ReadError", "RemoteProtocolError"}

(***************************************************************************)
(* Decoding and parsing of an upstream body                                *)
(***************************************************************************)
\* bytes.decode(): strict UTF-8, raises UnicodeDecodeError on an invalid byte
CanDecode(content) == \A i \in 1..Len(content) : content[i] # "xff"

\* response.text: decoding with errors="replace", never raises
text(content) ==
    [i \in 1..Len(content) |-> IF content[i] = "xff" THEN "ufffd" ELSE content[i]]

RECURSIVE Number(_)
Number(digits) ==
    IF digits = <<>> THEN 0 ELSE 10 * Number(SubSeq(digits, 1, Len(digits) - 1)) + 1

\* response.json() succeeds: the body decodes and, whitespace around it
\* aside, is one JSON value (here: a number written with the digit 1)
IsJson(content) ==
    /\ CanDecode(content)
    /\ strip(content) # <<>>
    /\ \A i \in 1..Len(strip(content)) : strip(content)[i] = "1"

\* the value response.json() returns
json(content) == Number(strip(content))

\* the exception response.json() raises on a body that is not JSON
json_error(content) ==
    IF CanDecode(content) THEN Exc("JSONDecodeError") ELSE Exc("UnicodeDecodeError")

(***************************************************************************)
(* chat(): request translation (src/app.py 142-167)                        *)
(***************************************************************************)
\* url = f"{OPENAI_BASE_URL}/chat/completions"
chat_url == <<OPENAI_BASE_URL, "/chat/completions">>

\* x if x is not None else DEFAULT
resolve_or(value, default) == IF value # None /\ value[1] # 0 THEN value[1] ELSE default
resolve(value, default) == IF value # None THEN value[1] ELSE default

\* if request.reasoning_effort:
has_reasoning_effort_not_none(req) == req.reasoning_effort # None
has_reasoning_effort(req) == TruthyStr(req.reasoning_effort)

base_payload_default_model(req) ==
    [model |-> "gpt-oss-120b",
     messages |-> req.messages,
     temperature |-> resolve(req.temperature, DEFAULT_TEMPERATURE),
     max_tokens |-> resolve(req.max_tokens, DEFAULT_MAX_TOKENS),
     stream |-> req.stream]
base_payload(req) ==
    [model |-> OPENAI_MODEL,
     messages |-> req.messages,
     temperature |-> resolve(req.temperature, DEFAULT_TEMPERATURE),
     max_tokens |-> resolve(req.max_tokens, DEFAULT_MAX_TOKENS),
     stream |-> req.stream]

\* payload["chat_template_kwargs"] = {"reasoning_effort": ...} when supplied
build_payload(req) ==
    IF has_reasoning_effort(req)
    THEN ("chat_template_kwargs" :> [reasoning_effort |-> req.reasoning_effort[1]])
         @@ base_payload(req)
    ELSE base_payload(req)

build_headers_always_auth ==
    [Content_Type |-> "application/json", Accept |-> "application/json",
     Authorization |-> <<"Bearer ", OPENAI_API_KEY>>]
build_headers ==
    IF OPENAI_API_KEY # ""
    THEN [Content_Type |-> "application/json", Accept |-> "application/json",
          Authorization |-> <<"Bearer ", OPENAI_API_KEY>>]
    ELSE [Content_Type |-> "application/json", Accept |-> "application/json"]

\* one upstream call on the shared client
UpstreamCall(kind, url, body, hdrs) ==
    [method |-> "POST", kind |-> kind, url |-> url, json |-> body, headers |-> hdrs]

\* the upstream calls chat() itself issues: none when it returns the
\* StreamingResponse (line 170), one http_client.post otherwise (line 178)
chat_calls_no_return(req, url, body, hdrs) == <<UpstreamCall("post", url, body, hdrs)>>
chat_calls(req, url, body, hdrs) ==
    IF TruthyBool(req.stream) THEN <<>>
    ELSE <<UpstreamCall("post", url, body, hdrs)>>

(***************************************************************************)
(* chat(): buffered relay (src/app.py 177-192)                             *)
(***************************************************************************)
Return(v) == [raised |-> FALSE, exc |-> Exc("None"), value |-> v]
Raise(e) == [raised |-> TRUE, exc |-> e, value |-> 0]

\* the try body once http_client.post has returned a response
chat_try_inverted(resp) ==
    IF resp.status_code # 200
    THEN IF IsJson(resp.content) THEN Return(json(resp.content))
         ELSE Raise(json_error(resp.content))
    ELSE Raise(HTTPException(resp.status_code,
                             <<"LLM server error: ">> \o text(resp.content)))
chat_try(resp) ==
    IF resp.status_code = 200
    THEN IF IsJson(resp.content) THEN Return(json(resp.content))
         ELSE Raise(json_error(resp.content))
    ELSE Raise(HTTPException(resp.status_code,
                             <<"LLM server error: ">> \o text(resp.content)))

\* the except clauses, tried in order, on an exception raised in the try body
chat_except_swapped(e) ==
    IF IsInstance(e.cls, "TimeoutException")
    THEN HTTPException(503, <<"LLM server timeout">>)
    ELSE IF IsInstance(e.cls, "ConnectError")
    THEN HTTPException(504, <<"cannot connect to LLM server">>)
    ELSE IF IsInstance(e.cls, "Exception")
    THEN HTTPException(500, <<"error: ">> \o str(e))
    ELSE e
chat_except(e) ==
    IF IsInstance(e.cls, "TimeoutException")
    THEN HTTPException(504, <<"LLM server timeout">>)
    ELSE IF IsInstance(e.cls, "ConnectError")
    THEN HTTPException(503, <<"cannot connect to LLM server">>)
    ELSE IF IsInstance(e.cls, "Exception")
    THEN HTTPException(500, <<"error: ">> \o str(e))
    ELSE e

\* what the caller of POST /api/chat gets from the outcome of the try body
chat_result(o) ==
    IF o.raised
    THEN LET h == chat_except(o.exc)
         IN  [status_code |-> h.status_code, content |-> None, detail |-> h.detail]
    ELSE [status_code |-> 200, content |-> Some(o.value), detail |-> <<>>]

(***************************************************************************)
(* stream_chat_response(): streaming relay (src/app.py 111-131)            *)
(***************************************************************************)
ErrorPrefix == "data: {'error': '"
ErrorEvent(message) == <<ErrorPrefix>> \o message \o <<"'}", "\n", "\n">>

\* if line.strip(): yield f"{line}\n"
ForwardLine_unfiltered(line) == IF line # <<>> THEN <<line \o <<"\n">>>> ELSE <<>>
ForwardLine(line) == IF strip(line) # <<>> THEN <<line \o <<"\n">>>> ELSE <<>>

\* the event yielded for a non-200 response whose body was read
stream_error_body(content) ==
    IF CanDecode(content)
    THEN Return(ErrorEvent(<<"LLM server error: ">> \o content))
    ELSE Raise(Exc("UnicodeDecodeError"))

\* the except clauses of the generator: the chunks yielded for exception e
stream_except_no_catch_all(e) ==
    IF IsInstance(e.cls, "TimeoutException")
    THEN <<ErrorEvent(<<"LLM server timeout">>)>>
    ELSE IF IsInstance(e.cls, "ConnectError")
    THEN <<ErrorEvent(<<"cannot connect to LLM server">>)>>
    ELSE <<>>
stream_except_bare(e) ==
    IF IsInstance(e.cls, "TimeoutException")
    THEN <<ErrorEvent(<<"LLM server timeout">>)>>
    ELSE IF IsInstance(e.cls, "ConnectError")
    THEN <<ErrorEvent(<<"cannot connect to LLM server">>)>>
    ELSE <<ErrorEvent(<<"error: ">> \o str(e))>>
stream_except_silent_timeout(e) ==
    IF IsInstance(e.cls, "TimeoutException")
    THEN <<>>
    ELSE IF IsInstance(e.cls, "ConnectError")
    THEN <<ErrorEvent(<<"cannot connect to LLM server">>)>>
    ELSE IF IsInstance(e.cls, "Exception")
    THEN <<ErrorEvent(<<"error: ">> \o str(e))>>
    ELSE <<>>
stream_except(e) ==
    IF IsInstance(e.cls, "TimeoutException")
    THEN <<ErrorEvent(<<"LLM server timeout">>)>>
    ELSE IF IsInstance(e.cls, "ConnectError")
    THEN <<ErrorEvent(<<"cannot connect to LLM server">>)>>
    ELSE IF IsInstance(e.cls, "Exception")
    THEN <<ErrorEvent(<<"error: ">> \o str(e))>>
    ELSE <<>>

\* async with http_client.stream(...) as response: leaving the block, by
\* return, by exhaustion of the loop or by an exception, releases the
\* upstream connection
async_with_exit_on_success_only(c, raised) ==
    IF c = "held" /\ ~raised THEN "released" ELSE c
async_with_exit(c, raised) == IF c = "held" THEN "released" ELSE c

(***************************************************************************)
(* State machine                                                           *)
(***************************************************************************)
\* positions at which the handling of a request has ended
Terminal == {"Responded", "Completed", "ErrorTerminated"}

Init ==
    /\ OPENAI_API_KEY \in ApiKeys
    /\ OPENAI_MODEL \in ModelIds
    /\ DEFAULT_TEMPERATURE \in DefaultTemperatures
    /\ DEFAULT_MAX_TOKENS \in DefaultMaxTokens
    /\ pc = "Idle"
    /\ request = None
    /\ payload = None
    /\ headers = None
    /\ calls = <<>>
    /\ response = None
    /\ upLines = <<>>
    /\ upExc = None
    /\ out = <<>>
    /\ result = None
    /\ conn = "none"
    /\ post_body = None
    /\ phase = "serving"
    /\ http_client = "open"
    /\ client_log = <<"create">>
    /\ probes = <<>>
    /\ environ = Some(OPENAI_MODEL)
    /\ tasks = <<>>
    /\ pool = {}
    /\ stalled = {}

\* POST /api/chat arrives: chat() runs up to its first suspension point,
\* the await of http_client.post, or returns the StreamingResponse
chat(req) ==
    /\ phase = "serving"
    /\ pc = "Idle"
    /\ request' = Some(req)
    /\ payload' = Some(build_payload(req))
    /\ headers' = Some(build_headers)
    /\ calls' = chat_calls(req, chat_url, build_payload(req), build_headers)
    /\ pc' = IF TruthyBool(req.stream) THEN "Started" ELSE "Posting"
    /\ response' = None
    /\ upLines' = <<>>
    /\ upExc' = None
    /\ out' = <<>>
    /\ result' = None
    /\ conn' = IF TruthyBool(req.stream) THEN "none" ELSE "held"
    /\ UNCHANGED <<config, process>>

\* http_client.post raises
post_fails(cls) ==
    /\ pc = "Posting"
    /\ upExc' = Some(Exc(cls))
    /\ result' = Some(chat_result(Raise(Exc(cls))))
    /\ pc' = "Responded"
    /\ conn' = "released"
    /\ UNCHANGED <<config, process, post_body, request, payload, headers, calls, response, upLines, out>>

\* http_client.post returns a response
post_returns(status, content) ==
    /\ pc = "Posting"
    /\ response' = Some([status_code |-> status, content |-> Some(content)])
    /\ LET o == chat_try([status_code |-> status, content |-> content])
       IN  /\ upExc' = IF o.raised THEN Some(o.exc) ELSE None
           /\ result' = Some(chat_result(o))
    /\ pc' = "Responded"
    /\ conn' = "released"
    /\ UNCHANGED <<config, process, post_body, request, payload, headers, calls, upLines, out>>

\* the StreamingResponse starts the generator: http_client.stream("POST", ...)
stream_open ==
    /\ pc = "Started"
    /\ calls' = Append(calls, UpstreamCall("stream", chat_url, payload[1], headers[1]))
    /\ pc' = "Connecting"
    /\ conn' = "held"
    /\ UNCHANGED <<config, process, post_body, request, payload, headers, response, upLines, upExc,
                   out, result>>

\* the streaming call fails before any response
stream_connect_fails(cls) ==
    /\ pc = "Connecting"
    /\ upExc' = Some(Exc(cls))
    /\ out' = out \o stream_except(Exc(cls))
    /\ pc' = "ErrorTerminated"
    /\ conn' = async_with_exit(conn, TRUE)
    /\ UNCHANGED <<config, process, post_body, request, payload, headers, calls, response, upLines, result>>

\* the response headers arrive
stream_response(status) ==
    /\ pc = "Connecting"
    /\ response' = Some([status_code |-> status, content |-> None])
    /\ pc' = IF status # 200 THEN "ReadingError" ELSE "Forwarding"
    /\ conn' = conn
    /\ UNCHANGED <<config, process, post_body, request, payload, headers, calls, upLines, upExc, out, result>>

\* await response.aread() returns the body of a non-200 response
stream_aread(content) ==
    /\ pc = "ReadingError"
    /\ response' = Some([status_code |-> response[1].status_code,
                         content |-> Some(content)])
    /\ LET o == stream_error_body(content)
       IN  /\ upExc' = IF o.raised THEN Some(o.exc) ELSE None
           /\ out' = IF o.raised THEN out \o stream_except(o.exc)
                     ELSE Append(out, o.value)
    /\ pc' = "ErrorTerminated"
    /\ conn' = async_with_exit(conn, stream_error_body(content).raised)
    /\ UNCHANGED <<config, process, post_body, request, payload, headers, calls, upLines, result>>

\* await response.aread() raises
stream_aread_fails(cls) ==
    /\ pc = "ReadingError"
    /\ upExc' = Some(Exc(cls))
    /\ out' = out \o stream_except(Exc(cls))
    /\ pc' = "ErrorTerminated"
    /\ conn' = async_with_exit(conn, TRUE)
    /\ UNCHANGED <<config, process, post_body, request, payload, headers, calls, response, upLines, result>>

\* aiter_lines() delivers the next line
stream_line(line) ==
    /\ pc = "Forwarding"
    /\ Len(upLines) < MaxLines
    /\ upLines' = Append(upLines, line)
    /\ out' = out \o ForwardLine(line)
    /\ conn' = conn
    /\ UNCHANGED <<config, process, post_body, pc, request, payload, headers, calls, response, upExc, result>>

\* aiter_lines() raises
stream_fails(cls) ==
    /\ pc = "Forwarding"
    /\ upExc' = Some(Exc(cls))
    /\ out' = out \o stream_except(Exc(cls))
    /\ pc' = "ErrorTerminated"
    /\ conn' = async_with_exit(conn, TRUE)
    /\ UNCHANGED <<config, process, post_body, request, payload, headers, calls, response, upLines, result>>

\* aiter_lines() is exhausted: the upstream closed the stream normally
stream_end ==
    /\ pc = "Forwarding"
    /\ pc' = "Completed"
    /\ conn' = async_with_exit(conn, FALSE)
    /\ UNCHANGED <<config, process, post_body, request, payload, headers, calls, response, upLines,
                   upExc, out, result>>

\* the caller disconnects from a streaming response: the task that iterates
\* the generator is cancelled, and CancelledError (GeneratorExit when the
\* generator is suspended at a yield) is raised inside the generator at its
\* suspension point; a generator that has not started is dropped
caller_disconnects ==
    /\ pc \in {"Started", "Connecting", "ReadingError", "Forwarding"}
    /\ upExc' = IF pc = "Started" THEN None ELSE Some(Exc("CancelledError"))
    /\ out' = IF pc = "Started" THEN out
              ELSE out \o stream_except(Exc("CancelledError"))
    /\ conn' = async_with_exit(conn, TRUE)
    /\ pc' = "Cancelled"
    /\ UNCHANGED <<config, process, post_body, request, payload, headers, calls, response,
                   upLines, result>>

\* the handling has ended: the locals of chat() and of the generator are
\* dropped, and the process waits for the next request
request_done ==
    /\ pc \in Terminal \cup {"Cancelled"}
    /\ pc' = "Idle"
    /\ request' = None
    /\ payload' = None
    /\ headers' = None
    /\ calls' = <<>>
    /\ response' = None
    /\ upLines' = <<>>
    /\ upExc' = None
    /\ out' = <<>>
    /\ result' = None
    /\ conn' = "none"
    /\ post_body' = None
    /\ UNCHANGED <<config, process>>

Next ==
    \/ \E req \in ChatRequest : chat(req) /\ UNCHANGED post_body
    \/ \E cls \in ConnectFailures \cup ReadFailures : post_fails(cls)
    \/ \E status \in UpstreamStatuses, content \in Bodies : post_returns(status, content)
    \/ stream_open
    \/ \E cls \in ConnectFailures : stream_connect_fails(cls)
    \/ \E status \in UpstreamStatuses : stream_response(status)
    \/ \E content \in Bodies : stream_aread(content)
    \/ \E cls \in ReadFailures : stream_aread_fails(cls)
    \/ \E line \in UpstreamLines : stream_line(line)
    \/ \E cls \in ReadFailures : stream_fails(cls)
    \/ stream_end
    \/ caller_disconnects
    \/ request_done

Spec == Init /\ [][Next]_vars

(***************************************************************************)
(* The process: import of the module (src/app.py 23-46), lifespan (52-70), *)
(* and requests parsed from their JSON body (88-94)                        *)
(***************************************************************************)
\* None in a variable that otherwise holds a str
PyNone == "<None>"

\* os.getenv("OPENAI_MODEL")
getenv(env) == IF env = None THEN PyNone ELSE env[1]

\* not OPENAI_MODEL
not_model(m) == m \in {PyNone, ""}

EnvModels == {None, Some(""), Some("served-model")}

\* what GET <base_url>/models can lead to: an exception of the call, or a
\* response; is_json: the body parses to an object; data: its "data" list,
\* each entry by its "id" (<<>> for an entry without that key, PyNone for null)
ProbeRaises(cls) ==
    [raised |-> TRUE, cls |-> cls, status_code |-> 0, is_json |-> FALSE, data |-> <<>>]
ProbeResponse(status, is_json, data) ==
    [raised |-> FALSE, cls |-> "None", status_code |-> status, is_json |-> is_json,
     data |-> data]
ProbeData == {<<>>, <<None>>, <<Some("")>>, <<Some(PyNone)>>, <<Some("probed-model")>>,
              <<Some("probed-model"), Some("second-model")>>,
              <<Some("second-model"), Some("probed-model")>>}
ProbeOutcomes ==
    {ProbeRaises("ConnectError"), ProbeRaises("ConnectTimeout"),
     ProbeResponse(500, TRUE, <<Some("probed-model")>>),
     ProbeResponse(200, FALSE, <<>>)}
    \cup {ProbeResponse(200, TRUE, d) : d \in ProbeData}

\* lines 27-42: the model the probe resolves to
probe_model_last(o) ==
    IF o.raised THEN "gpt-oss-120b"
    ELSE IF o.status_code = 200
    THEN IF ~o.is_json THEN "gpt-oss-120b"
         ELSE IF o.data # <<>>
         THEN IF o.data[Len(o.data)] = None THEN "gpt-oss-120b"
              ELSE o.data[Len(o.data)][1]
         ELSE "gpt-oss-120b"
    ELSE "gpt-oss-120b"
probe_model(o) ==
    IF o.raised THEN "gpt-oss-120b"
    ELSE IF o.status_code = 200
    THEN IF ~o.is_json THEN "gpt-oss-120b"
         ELSE IF o.data # <<>>
         THEN IF o.data[1] = None THEN "gpt-oss-120b" ELSE o.data[1][1]
         ELSE "gpt-oss-120b"
    ELSE "gpt-oss-120b"

\* the body of a POST /api/chat: each key absent (<<>>) or present with a
\* value (<<v>>, v an Optional: null is <<None>>); model is a key that
\* ChatRequest does not declare
Absent == <<>>
Present(v) == <<v>>
RequestBodies ==
    [messages : {<<[role |-> "user", content |-> "hi"]>>},
     temperature : {Absent, Present(Some(0))},
     max_tokens : {Absent},
     reasoning_effort : {Absent, Present(Some("high"))},
     stream : {Absent, Present(None), Present(Some(FALSE)), Present(Some(TRUE))},
     model : {Absent, Present(Some("other-model"))}]

\* a field of ChatRequest: the value of the key, or the declared default
field(key, default) == IF key = Absent THEN default ELSE key[1]

\* ChatRequest(**body): undeclared keys are ignored
ChatRequest_parse(raw) ==
    [messages |-> raw.messages,
     temperature |-> field(raw.temperature, None),
     max_tokens |-> field(raw.max_tokens, None),
     reasoning_effort |-> field(raw.reasoning_effort, None),
     stream |-> field(raw.stream, Some(FALSE))]

InitProcess ==
    /\ OPENAI_API_KEY \in ApiKeys
    /\ environ \in EnvModels
    /\ OPENAI_MODEL = getenv(environ)
    /\ DEFAULT_TEMPERATURE \in DefaultTemperatures
    /\ DEFAULT_MAX_TOKENS \in DefaultMaxTokens
    /\ phase = "import"
    /\ http_client = "None"
    /\ client_log = <<>>
    /\ probes = <<>>
    /\ pc = "Idle"
    /\ request = None
    /\ payload = None
    /\ headers = None
    /\ calls = <<>>
    /\ response = None
    /\ upLines = <<>>
    /\ upExc = None
    /\ out = <<>>
    /\ result = None
    /\ conn = "none"
    /\ post_body = None
    /\ tasks = <<>>
    /\ pool = {}
    /\ stalled = {}

relay == <<pc, request, payload, headers, calls, response, upLines, upExc, out,
           result, conn, post_body>>

\* line 26, OPENAI_MODEL is set: the import goes on without a probe
import_configured ==
    /\ phase = "import"
    /\ ~not_model(OPENAI_MODEL)
    /\ phase' = "loaded"
    /\ UNCHANGED <<config, relay, http_client, client_log, probes, environ, concurrent>>

\* lines 26-42, OPENAI_MODEL is not set: one GET <base_url>/models
import_probe(o) ==
    /\ phase = "import"
    /\ not_model(OPENAI_MODEL)
    /\ probes' = Append(probes, [method |-> "GET", url |-> <<OPENAI_BASE_URL, "/models">>,
                                 outcome |-> o])
    /\ OPENAI_MODEL' = probe_model(o)
    /\ phase' = "loaded"
    /\ UNCHANGED <<OPENAI_API_KEY, DEFAULT_TEMPERATURE, DEFAULT_MAX_TOKENS, relay,
                   http_client, client_log, environ, concurrent>>

\* lifespan, before the yield: the shared client is created
lifespan_startup ==
    /\ phase = "loaded"
    /\ http_client' = "open"
    /\ client_log' = Append(client_log, "create")
    /\ phase' = "serving"
    /\ UNCHANGED <<config, relay, probes, environ, concurrent>>

\* lifespan, after the yield, once the server has no request left:
\* if http_client: await http_client.aclose()
lifespan_shutdown_no_close ==
    /\ phase = "serving"
    /\ pc = "Idle"
    /\ phase' = "stopped"
    /\ UNCHANGED <<config, relay, probes, environ, http_client, client_log, concurrent>>
lifespan_shutdown ==
    /\ phase = "serving"
    /\ pc = "Idle"
    /\ IF http_client # "None"
       THEN /\ http_client' = "closed"
            /\ client_log' = Append(client_log, "close")
       ELSE UNCHANGED <<http_client, client_log>>
    /\ phase' = "stopped"
    /\ UNCHANGED <<config, relay, probes, environ, concurrent>>

\* POST /api/chat with the given JSON body
api_chat(raw) ==
    /\ chat(ChatRequest_parse(raw))
    /\ post_body' = Some(raw)

ProcessFailures == {"ConnectError", "ReadTimeout"}
ProcessStatuses == {200, 404}
ProcessContents == {<<"1">>, <<"xff">>}
ProcessLines == {<<>>, <<"d">>}

NextProcess ==
    \/ import_configured
    \/ \E o \in ProbeOutcomes : import_probe(o)
    \/ lifespan_startup
    \/ lifespan_shutdown
    \/ \E raw \in RequestBodies : api_chat(raw)
    \/ \E cls \in ProcessFailures : post_fails(cls)
    \/ \E status \in ProcessStatuses, content \in ProcessContents :
           post_returns(status, content)
    \/ stream_open
    \/ \E cls \in ProcessFailures : stream_connect_fails(cls)
    \/ \E status \in ProcessStatuses : stream_response(status)
    \/ \E content \in ProcessContents : stream_aread(content)
    \/ \E cls \in ProcessFailures : stream_aread_fails(cls)
    \/ \E line \in ProcessLines : stream_line(line)
    \/ \E cls \in ProcessFailures : stream_fails(cls)
    \/ stream_end
    \/ caller_disconnects
    \/ request_done

SpecProcess == InitProcess /\ [][NextProcess]_vars

(***************************************************************************)
(* Concurrent requests: every POST /api/chat is a coroutine of its own on  *)
(* the event loop; its request, response and exception are locals of that  *)
(* coroutine, and the pool of the shared client (src/app.py 59-62) is all  *)
(* the coroutines share                                                    *)
(***************************************************************************)
NumRequests == 2
ConcMaxLines == 1

\* limits=httpx.Limits(max_connections=100, ...)
max_connections == 100

Requests == 1..NumRequests

\* what tells the upstream data of request i from any other request's
Tag(i) == "req" \o ToString(i)
ConcLine(i) == <<"data: ", Tag(i)>>
ConcContent(i, status) == IF status = 200 THEN [k \in 1..i |-> "1"] ELSE <<Tag(i)>>
ConcStatuses == {200, 500}
ConcFailures == {"ConnectError", "ReadTimeout"}

\* the pool hands out a connection while fewer than max_connections are held
pool_has_room_single(held) == held = {}
pool_has_room(held) == Cardinality(held) < max_connections

NewTask ==
    [pc |-> "Idle", stream |-> FALSE, response |-> None, lines |-> <<>>,
     exc |-> None, out |-> <<>>, result |-> None]

InitConcurrent ==
    /\ OPENAI_API_KEY = ""
    /\ OPENAI_MODEL = "gpt-oss-120b"
    /\ DEFAULT_TEMPERATURE = 7
    /\ DEFAULT_MAX_TOKENS = 2000
    /\ phase = "serving"
    /\ http_client = "open"
    /\ client_log = <<"create">>
    /\ probes = <<>>
    /\ environ = Some(OPENAI_MODEL)
    /\ pc = "Idle"
    /\ request = None
    /\ payload = None
    /\ headers = None
    /\ calls = <<>>
    /\ response = None
    /\ upLines = <<>>
    /\ upExc = None
    /\ out = <<>>
    /\ result = None
    /\ conn = "none"
    /\ post_body = None
    /\ tasks = [i \in Requests |-> NewTask]
    /\ pool = {}
    /\ stalled = {}

single == <<config, relay, phase, http_client, client_log, probes, environ>>

\* chat() runs up to its first await: http_client.post, or, once the
\* StreamingResponse is iterated, http_client.stream
task_chat(i, stream) ==
    /\ tasks[i].pc = "Idle"
    /\ tasks' = [tasks EXCEPT ![i].pc = "Waiting", ![i].stream = stream]
    /\ UNCHANGED <<single, pool, stalled>>

\* the call gets a connection from the pool of the shared client
task_connect(i) ==
    /\ tasks[i].pc = "Waiting"
    /\ pool_has_room(pool)
    /\ pool' = pool \cup {i}
    /\ tasks' = [tasks EXCEPT ![i].pc = "Awaiting"]
    /\ UNCHANGED <<single, stalled>>

\* the upstream of request i stops answering
task_stalls(i) ==
    /\ tasks[i].pc \in {"Awaiting", "Forwarding"}
    /\ i \notin stalled
    /\ stalled' = stalled \cup {i}
    /\ UNCHANGED <<single, tasks, pool>>

\* the upstream of request i answers with a status
task_response(i, status) ==
    /\ tasks[i].pc = "Awaiting"
    /\ i \notin stalled
    /\ LET resp == [status_code |-> status, content |-> ConcContent(i, status)]
           body == stream_error_body(resp.content)
       IN  IF ~tasks[i].stream
           THEN /\ tasks' = [tasks EXCEPT ![i].pc = "Done",
                                          ![i].response = Some(resp),
                                          ![i].result = Some(chat_result(chat_try(resp)))]
                /\ pool' = pool \ {i}
           ELSE IF status = 200
           THEN /\ tasks' = [tasks EXCEPT ![i].pc = "Forwarding",
                                          ![i].response = Some(resp)]
                /\ pool' = pool
           ELSE /\ tasks' = [tasks EXCEPT ![i].pc = "Done",
                                          ![i].response = Some(resp),
                                          ![i].out = IF body.raised
                                                     THEN stream_except(body.exc)
                                                     ELSE <<body.value>>]
                /\ pool' = pool \ {i}
    /\ UNCHANGED <<single, stalled>>

\* the upstream of request i sends one more line of its stream
task_line(i) ==
    /\ tasks[i].pc = "Forwarding"
    /\ i \notin stalled
    /\ Len(tasks[i].lines) < ConcMaxLines
    /\ tasks' = [tasks EXCEPT ![i].lines = Append(@, ConcLine(i)),
                              ![i].out = @ \o ForwardLine(ConcLine(i))]
    /\ UNCHANGED <<single, pool, stalled>>

\* the stream of request i ends
task_end(i) ==
    /\ tasks[i].pc = "Forwarding"
    /\ i \notin stalled
    /\ tasks' = [tasks EXCEPT ![i].pc = "Done"]
    /\ pool' = pool \ {i}
    /\ UNCHANGED <<single, stalled>>

\* the upstream call of request i raises; on a stalled upstream only the
\* client's timeout does
task_fails(i, cls) ==
    /\ tasks[i].pc \in {"Awaiting", "Forwarding"}
    /\ i \in stalled => IsInstance(cls, "TimeoutException")
    /\ tasks' = [tasks EXCEPT
                   ![i].pc = "Done",
                   ![i].exc = Some(Exc(cls)),
                   ![i].out = IF tasks[i].stream THEN @ \o stream_except(Exc(cls)) ELSE @,
                   ![i].result = IF tasks[i].stream THEN @
                                 ELSE Some(chat_result(Raise(Exc(cls))))]
    /\ pool' = pool \ {i}
    /\ UNCHANGED <<single, stalled>>

\* what an upstream that has not stalled does for request i
Upstream(i) ==
    \/ \E status \in ConcStatuses : task_response(i, status)
    \/ task_line(i)
    \/ task_end(i)
    \/ i \notin stalled /\ \E cls \in ConcFailures : task_fails(i, cls)

NextConcurrent ==
    \/ \E i \in Requests, stream \in BOOLEAN : task_chat(i, stream)
    \/ \E i \in Requests : task_connect(i)
    \/ \E i \in Requests : task_stalls(i)
    \/ \E i \in Requests, status \in ConcStatuses : task_response(i, status)
    \/ \E i \in Requests : task_line(i)
    \/ \E i \in Requests : task_end(i)
    \/ \E i \in Requests, cls \in ConcFailures : task_fails(i, cls)

\* the event loop resumes every coroutine that can go on, and an upstream
\* that has not stalled answers
SpecConcurrent ==
    /\ InitConcurrent
    /\ [][NextConcurrent]_vars
    /\ \A i \in Requests : WF_vars(task_connect(i)) /\ WF_vars(Upstream(i))

(***************************************************************************)
(* Vocabulary of the properties                                            *)
(***************************************************************************)
Buffered == pc = "Responded"
Streaming == pc \in {"Started", "Connecting", "ReadingError", "Forwarding",
                     "Completed", "ErrorTerminated"}

\* a line that is empty or consists of whitespace only
IsBlank(line) == \A i \in 1..Len(line) : line[i] \in Whitespace
NonBlank(lines) == SelectSeq(lines, LAMBDA l : ~IsBlank(l))
\* the chunks that carry the given lines, one line per chunk
AsChunks(lines) == [i \in 1..Len(lines) |-> lines[i] \o <<"\n">>]

IsErrorEvent(chunk) == chunk # <<>> /\ chunk[1] = ErrorPrefix

TimeoutClasses == {"ConnectTimeout", "ReadTimeout", "PoolTimeout"}
UpstreamTimedOut == upExc # None /\ upExc[1].cls \in TimeoutClasses
UpstreamUnreachable == upExc # None /\ upExc[1].cls = "ConnectError"
UpstreamNon200 == response # None /\ response[1].status_code # 200
\* a failure of the buffered relay that is none of the three above
OtherFailure ==
    /\ upExc # None
    /\ ~UpstreamTimedOut /\ ~UpstreamUnreachable /\ ~UpstreamNon200

(***************************************************************************)
(* C1: in buffered mode, an upstream response with status s # 200 is       *)
(* answered with an HTTP error of status s whose message contains the      *)
(* upstream body.  Violated: the HTTPException raised for it inside the    *)
(* try block is caught by "except Exception" and replaced by a 500.        *)
(***************************************************************************)
C1_UpstreamStatusMirrored ==
    (Buffered /\ UpstreamNon200) =>
        /\ result[1].status_code = response[1].status_code
        /\ Contains(result[1].detail, text(response[1].content[1]))

(***************************************************************************)
(* C2: a streaming response that the upstream answers with 200 and closes  *)
(* normally carries exactly the upstream's non-blank lines, in order, one  *)
(* per chunk and unaltered (each followed by its line terminator).         *)
(***************************************************************************)
C2_StreamIsNonBlankLines ==
    (pc = "Completed" /\ response[1].status_code = 200) =>
        out = AsChunks(NonBlank(upLines))

C2_Witness ==
    /\ pc = "Completed"
    /\ Len(upLines) = 2
    /\ IsBlank(upLines[1]) /\ upLines[1] # <<>>
    /\ upLines[2] = <<" ", "d", " ">>
    /\ Len(out) = 1

(***************************************************************************)
(* C3: at every point of a streaming response the chunks sent so far begin *)
(* with the non-blank lines received so far, in order and none of them an  *)
(* error event; and once an exception has ended the stream, they are those *)
(* k lines followed by exactly one error event.                            *)
(***************************************************************************)
C3_LinesThenOneError ==
    Streaming =>
        LET k == Len(NonBlank(upLines))
        IN  /\ Len(out) >= k
            /\ SubSeq(out, 1, k) = AsChunks(NonBlank(upLines))
            /\ \A i \in 1..k : ~IsErrorEvent(out[i])
            /\ (pc = "ErrorTerminated" /\ upExc # None) =>
                   /\ Len(out) = k + 1
                   /\ IsErrorEvent(out[k + 1])

C3_Witness ==
    /\ pc = "ErrorTerminated"
    /\ upExc # None /\ upExc[1].cls = "RemoteProtocolError"
    /\ Len(NonBlank(upLines)) = 2
    /\ Len(out) = 3

(***************************************************************************)
(* C4: a streaming response whose upstream status is not 200, and whose    *)
(* body was received, consists of exactly one error event that describes   *)
(* the upstream body.  Violated: a body that is not valid UTF-8 makes      *)
(* decode() raise, and the event describes that exception instead.         *)
(***************************************************************************)
C4_Non200OneEventWithBody ==
    (pc = "ErrorTerminated" /\ UpstreamNon200 /\ response[1].content # None) =>
        /\ Len(out) = 1
        /\ IsErrorEvent(out[1])
        /\ Contains(out[1], text(response[1].content[1]))

(***************************************************************************)
(* C5: in buffered mode, an upstream 200 whose body is JSON is answered    *)
(* with status 200 and the JSON value of that body.                        *)
(***************************************************************************)
C5_BufferedReturnsUpstreamJson ==
    (Buffered /\ response # None /\ response[1].status_code = 200
              /\ IsJson(response[1].content[1])) =>
        /\ result[1].status_code = 200
        /\ result[1].content = Some(json(response[1].content[1]))

C5_Witness ==
    /\ Buffered
    /\ response # None /\ response[1].status_code = 200
    /\ response[1].content[1] = <<" ", "1">>
    /\ result[1].status_code = 200
    /\ result[1].content = Some(1)

(***************************************************************************)
(* C6: in buffered mode a connection failure is answered with 503 and a    *)
(* timeout with 504, never with another status.                            *)
(***************************************************************************)
C6_ConnectIs503TimeoutIs504 ==
    Buffered =>
        /\ UpstreamUnreachable => result[1].status_code = 503
        /\ UpstreamTimedOut => result[1].status_code = 504

C6_Witness ==
    /\ Buffered
    /\ UpstreamUnreachable
    /\ result[1].status_code = 503

(***************************************************************************)
(* C7: in buffered mode the caller gets 500 exactly for the failures that  *)
(* are neither a connection failure, nor a timeout, nor an upstream        *)
(* non-200 response.  Violated: every upstream non-200 is answered 500     *)
(* (see C1).                                                               *)
(***************************************************************************)
C7_500OnlyForOtherFailures ==
    Buffered => (result[1].status_code = 500 <=> OtherFailure)

(***************************************************************************)
(* C8: a caller request leads to at most one upstream call at any time,    *)
(* and to exactly one, a POST to <base_url>/chat/completions, once its     *)
(* handling has ended, whatever the outcome.                               *)
(***************************************************************************)
C8_OneUpstreamAttempt ==
    /\ Len(calls) <= 1
    /\ pc \in Terminal =>
          /\ Len(calls) = 1
          /\ calls[1].method = "POST"
          /\ calls[1].url = <<OPENAI_BASE_URL, "/chat/completions">>

C8_Witness ==
    /\ pc = "ErrorTerminated"
    /\ upExc # None
    /\ Len(calls) = 1

(***************************************************************************)
(* C9: the payload sent upstream carries the request's temperature and     *)
(* max_tokens when the request supplies them (0 included), and the         *)
(* configured default when the request omits them, each independently.     *)
(***************************************************************************)
C9_OverridesAndDefaults ==
    \A i \in 1..Len(calls) :
        LET sent == calls[i].json
            req == request[1]
        IN  /\ sent.temperature = IF req.temperature = None
                                  THEN DEFAULT_TEMPERATURE ELSE req.temperature[1]
            /\ sent.max_tokens = IF req.max_tokens = None
                                 THEN DEFAULT_MAX_TOKENS ELSE req.max_tokens[1]

C9_Witness ==
    /\ Len(calls) = 1
    /\ request[1].temperature = Some(0)
    /\ request[1].max_tokens = None
    /\ DEFAULT_TEMPERATURE = 7
    /\ calls[1].json.temperature = 0
    /\ calls[1].json.max_tokens = DEFAULT_MAX_TOKENS

(***************************************************************************)
(* C10: the payload sent upstream has the key chat_template_kwargs,        *)
(* holding reasoning_effort equal to the caller's value, exactly when the  *)
(* caller supplied a non-empty reasoning_effort; reasoning_effort is never *)
(* a top-level key.                                                        *)
(***************************************************************************)
C10_ReasoningEffortNested ==
    \A i \in 1..Len(calls) :
        LET sent == calls[i].json
            supplied == request[1].reasoning_effort \notin {None, Some("")}
        IN  /\ "chat_template_kwargs" \in DOMAIN sent <=> supplied
            /\ supplied => sent.chat_template_kwargs
                             = [reasoning_effort |-> request[1].reasoning_effort[1]]
            /\ "reasoning_effort" \notin DOMAIN sent

C10_Witness ==
    /\ Len(calls) = 1
    /\ request[1].reasoning_effort = Some("high")
    /\ calls[1].json.chat_template_kwargs.reasoning_effort = "high"

(***************************************************************************)
(* C11: the model field of every payload sent upstream is the process-wide *)
(* model identifier, whatever the request holds, and that identifier does  *)
(* not change while requests are served.                                   *)
(***************************************************************************)
C11_ModelIsProcessWide ==
    /\ [](\A i \in 1..Len(calls) : calls[i].json.model = OPENAI_MODEL)
    /\ [][phase = "serving" => OPENAI_MODEL' = OPENAI_MODEL]_vars

C11_Witness ==
    /\ Len(calls) = 1
    /\ OPENAI_MODEL = "served-model"
    /\ calls[1].json.model = "served-model"
    /\ request[1].reasoning_effort = Some("high")
    /\ Len(request[1].messages) = 2

(***************************************************************************)
(* C12: the headers of every upstream call hold Content-Type and Accept,   *)
(* both application/json, and hold Authorization, "Bearer " followed by    *)
(* the key, exactly when the configured API key is not empty.              *)
(***************************************************************************)
C12_Headers ==
    \A i \in 1..Len(calls) :
        LET h == calls[i].headers
        IN  /\ h.Content_Type = "application/json"
            /\ h.Accept = "application/json"
            /\ "Authorization" \in DOMAIN h <=> OPENAI_API_KEY # ""
            /\ "Authorization" \in DOMAIN h =>
                   h.Authorization = <<"Bearer ", OPENAI_API_KEY>>

C12_Witness ==
    /\ Len(calls) = 1
    /\ OPENAI_API_KEY = ""
    /\ DOMAIN calls[1].headers = {"Content_Type", "Accept"}

(***************************************************************************)
(* C14: a streaming response moves Started -> Connecting -> Forwarding ->  *)
(* Completed or ErrorTerminated (a non-200 response passing through the    *)
(* read of its body).  It holds at most one error event, which is its last *)
(* chunk; every failure (an exception before or after the response, a      *)
(* non-200 response) ends in ErrorTerminated with exactly one error event; *)
(* a normal closure ends in Completed with no error event.                 *)
(***************************************************************************)
ErrorEvents == {i \in 1..Len(out) : IsErrorEvent(out[i])}

StreamFailed ==
    \/ upExc # None
    \/ UpstreamNon200 /\ response[1].content # None

StreamTransitions ==
    {<<"Idle", "Started">>, <<"Started", "Connecting">>,
     <<"Connecting", "Forwarding">>, <<"Connecting", "ReadingError">>,
     <<"Connecting", "ErrorTerminated">>, <<"ReadingError", "ErrorTerminated">>,
     <<"Forwarding", "Completed">>, <<"Forwarding", "ErrorTerminated">>,
     <<"Completed", "Idle">>, <<"ErrorTerminated", "Idle">>,
     <<"Started", "Cancelled">>, <<"Connecting", "Cancelled">>,
     <<"ReadingError", "Cancelled">>, <<"Forwarding", "Cancelled">>,
     <<"Cancelled", "Idle">>}

C14_StreamStateMachine ==
    /\ [](Streaming =>
            /\ Cardinality(ErrorEvents) <= 1
            /\ ErrorEvents \subseteq {Len(out)}
            /\ StreamFailed => pc = "ErrorTerminated"
            /\ pc = "ErrorTerminated" => StreamFailed /\ ErrorEvents = {Len(out)}
            /\ pc = "Completed" => ErrorEvents = {} /\ response[1].status_code = 200)
    /\ [][(Streaming \/ Streaming') /\ pc' # pc => <<pc, pc'>> \in StreamTransitions]_vars

C14_Witness ==
    /\ pc = "ErrorTerminated"
    /\ upExc # None /\ upExc[1].cls = "ReadTimeout"
    /\ Len(upLines) = 2
    /\ ErrorEvents = {Len(out)}

(***************************************************************************)
(* C15: when the caller disconnects while the response is in Forwarding,   *)
(* that step sends no chunk, reads no upstream line, issues no upstream    *)
(* call and releases the upstream connection; afterwards nothing more is   *)
(* sent or read for the request, and its connection is not held.           *)
(***************************************************************************)
C15_DisconnectStopsRelay ==
    /\ [](pc = "Cancelled" => conn # "held")
    /\ [][(pc = "Forwarding" /\ pc' = "Cancelled") =>
            /\ out' = out /\ upLines' = upLines /\ calls' = calls
            /\ conn' = "released"]_vars
    /\ [][pc = "Cancelled" =>
            \/ pc' = "Idle"
            \/ out' = out /\ upLines' = upLines /\ calls' = calls]_vars

C15_Witness ==
    /\ pc = "Cancelled"
    /\ response # None /\ response[1].status_code = 200
    /\ Len(upLines) = 1 /\ Len(out) = 1
    /\ conn = "released"

(***************************************************************************)
(* C18: once a streaming response has ended, by completion, by an error    *)
(* event on any path or by cancellation, the upstream connection opened    *)
(* for it is not held; connections held never outnumber requests in        *)
(* flight.                                                                 *)
(***************************************************************************)
HeldConnections == IF conn = "held" THEN 1 ELSE 0
InFlight == IF pc \in {"Posting", "Started", "Connecting", "ReadingError", "Forwarding"}
            THEN 1 ELSE 0

C18_ConnectionReleased ==
    /\ pc \in {"Completed", "ErrorTerminated", "Cancelled"} => conn # "held"
    /\ HeldConnections <= InFlight

C18_Witness ==
    /\ pc = "ErrorTerminated"
    /\ upExc # None /\ upExc[1].cls = "ReadError"
    /\ Len(upLines) = 1
    /\ conn = "released"


(***************************************************************************)
(* C16: the process has one shared upstream client: it is created exactly  *)
(* once, at startup, and closed exactly once, at shutdown; handling a      *)
(* request never creates or closes a client, and every upstream call is    *)
(* made on that client while it is created and not yet closed.             *)
(***************************************************************************)
C16_OneSharedClient ==
    /\ [](/\ phase \in {"import", "loaded"} => client_log = <<>> /\ http_client = "None"
          /\ phase = "serving" => client_log = <<"create">> /\ http_client = "open"
          /\ phase = "stopped" => client_log = <<"create", "close">> /\ http_client = "closed"
          /\ pc # "Idle" => http_client = "open")
    /\ [][calls' # calls /\ calls' # <<>> => http_client = "open" /\ http_client' = "open"]_vars
    /\ [][client_log' # client_log \/ http_client' # http_client
            => pc = "Idle" /\ UNCHANGED relay]_vars

C16_Witness ==
    /\ phase = "stopped"
    /\ client_log = <<"create", "close">>
    /\ http_client = "closed"

(***************************************************************************)
(* C17: the stream field sent upstream equals the request's stream field;  *)
(* the caller gets a streaming response exactly when that field is true;   *)
(* a body whose stream is false, omitted or null is answered from a single *)
(* buffered POST.                                                          *)
(***************************************************************************)
C17_StreamFlagSelectsPath ==
    post_body # None =>
        LET raw == post_body[1].stream
            req == request[1]
        IN /\ req.stream = (IF raw = Absent THEN Some(FALSE) ELSE raw[1])
           /\ \A i \in 1..Len(calls) : calls[i].json.stream = req.stream
           /\ (Streaming \/ pc = "Cancelled") <=> (raw = Present(Some(TRUE)))
           /\ raw \in {Absent, Present(None), Present(Some(FALSE))}
                => /\ pc \in {"Posting", "Responded"}
                   /\ Len(calls) = 1
                   /\ calls[1].kind = "post"
                   /\ out = <<>>

C17_Witness ==
    /\ post_body # None
    /\ post_body[1].stream = Absent
    /\ pc = "Responded"
    /\ Len(calls) = 1
    /\ calls[1].json.stream = Some(FALSE)

(***************************************************************************)
(* C19: the model is resolved once, while the module is loaded.            *)
(***************************************************************************)
Configured == environ # None /\ environ[1] # ""

\* the probe gave a first entry with an identifier
ProbeGaveModel(o) ==
    /\ ~o.raised
    /\ o.status_code = 200
    /\ o.is_json
    /\ o.data # <<>>
    /\ o.data[1] # None

ResolutionChain ==
    phase # "import" =>
        /\ Configured => probes = <<>> /\ OPENAI_MODEL = environ[1]
        /\ ~Configured =>
             /\ Len(probes) = 1
             /\ probes[1].method = "GET"
             /\ probes[1].url = <<OPENAI_BASE_URL, "/models">>
             /\ OPENAI_MODEL = IF ProbeGaveModel(probes[1].outcome)
                               THEN probes[1].outcome.data[1][1]
                               ELSE "gpt-oss-120b"

ModelNonEmpty == phase # "import" => OPENAI_MODEL \notin {"", PyNone}

\* C19 as stated: a configured model is used without a probe; otherwise the
\* model list is fetched exactly once and its first entry's identifier is
\* taken, any failure giving the fixed default; the resolved model is always
\* non-empty.
C19_ResolvedAlwaysNonEmpty == ResolutionChain /\ ModelNonEmpty

\* C19, amended: the same chain; the resolved model is non-empty unless the
\* probe's first entry carries an empty or null identifier, which is then
\* used as it is; once resolved, the model never changes and no further
\* probe is made.
C19_ResolvedOnceAtImport ==
    /\ [](/\ ResolutionChain
          /\ phase # "import"
               => (OPENAI_MODEL \in {"", PyNone}
                     <=> /\ ~Configured
                         /\ ProbeGaveModel(probes[1].outcome)
                         /\ probes[1].outcome.data[1] \in {Some(""), Some(PyNone)}))
    /\ [][phase # "import" => OPENAI_MODEL' = OPENAI_MODEL /\ probes' = probes]_vars

C19_Witness ==
    /\ phase = "serving"
    /\ environ = Some("")
    /\ Len(probes) = 1
    /\ probes[1].outcome.data = <<Some("second-model"), Some("probed-model")>>
    /\ OPENAI_MODEL = "second-model"
    /\ Len(calls) = 1
    /\ calls[1].json.model = "second-model"


(***************************************************************************)
(* C13: with no more simultaneous requests than the pool has connections,  *)
(* every request completes with its own outcome whatever the others do: a  *)
(* request whose upstream is slow, stalled or failing never keeps another  *)
(* from progressing, and no response holds a line or an error of another   *)
(* request.                                                                *)
(***************************************************************************)
\* the outcome of a request, from what its own upstream did
OwnOut(t) ==
    IF ~t.stream THEN <<>>
    ELSE IF t.response # None /\ t.response[1].status_code # 200
    THEN <<ErrorEvent(<<"LLM server error: ">> \o t.response[1].content)>>
    ELSE AsChunks(t.lines) \o (IF t.exc # None THEN stream_except(t.exc[1]) ELSE <<>>)

OwnResult(t) ==
    IF t.stream \/ t.pc # "Done" THEN None
    ELSE IF t.exc # None THEN Some(chat_result(Raise(t.exc[1])))
    ELSE Some(chat_result(chat_try(t.response[1])))

\* nothing of request j in what the caller of request i gets
NothingOf(j, i) ==
    /\ \A k \in 1..Len(tasks[i].out) : ~Contains(tasks[i].out[k], <<Tag(j)>>)
    /\ tasks[i].result # None =>
         /\ ~Contains(tasks[i].result[1].detail, <<Tag(j)>>)
         /\ tasks[i].result[1].content # Some(json(ConcContent(j, 200)))

Independent ==
    /\ NumRequests <= max_connections
    /\ pool = {i \in Requests : tasks[i].pc \in {"Awaiting", "Forwarding"}}
    /\ \A i \in Requests :
         /\ tasks[i].out = OwnOut(tasks[i])
         /\ tasks[i].result = OwnResult(tasks[i])
         /\ \A j \in Requests \ {i} : NothingOf(j, i)

C13_RequestsIndependent ==
    /\ []Independent
    /\ \A i \in Requests :
         (tasks[i].pc = "Waiting") ~> (tasks[i].pc = "Done" \/ i \in stalled)

C13_Witness ==
    /\ 2 \in stalled
    /\ tasks[2].pc = "Forwarding"
    /\ pool = {2}
    /\ tasks[1].pc = "Done"
    /\ tasks[1].stream
    /\ tasks[1].out = <<ConcLine(1) \o <<"\n">>>>
    /\ tasks[2].out = <<>>

====
